---- MODULE Spec2Model ----
(***************************************************************************)
(* Hybrid ranking pipeline of the question/answer search engine:           *)
(* topic-index candidate selection, per-space cosine scoring, weighted     *)
(* fusion, ordering and thread level de-duplication                        *)
(* (src/src/core/search_engine.py and the components it composes).         *)
(*                                                                         *)
(* Conventions.  A DataFrame is a sequence of rows in frame order; a row   *)
(* is a record [Id, ParentId, cleaned_body].  A dict is a function whose   *)
(* DOMAIN is its key set.  Texts (post bodies and queries) are tokens      *)
(* 1..Len(LdaTable); the pretrained models are tables over those tokens.   *)
(* Embedding vectors are L2-normalised, so vectors are drawn from integer  *)
(* unit vectors and similarities are exact integers.  Weights are kept in  *)
(* tenths (0.3 -> 3).  Array positions are 1-based here, 0-based in the    *)
(* source; topic ids are 0-based as in the source.                         *)
(***************************************************************************)
EXTENDS Integers, Sequences, FiniteSets, TLC

VARIABLES
    disk,               \* the artifacts under config.data_path
    sortKind,           \* how this build's np.argsort orders equal keys
    phase,              \* "new" | "ready" | "failed"  (SearchEngine.__init__)
    posts,              \* SearchEngine.posts
    embeddings_titles,  \* EmbeddingManager.embeddings_titles
    embeddings_answer,  \* EmbeddingManager.embeddings_answer
    topic_documents,    \* SearchEngine.topic_documents
    call,               \* the last call made on the engine
    result,             \* what that call returned or raised
    trace,              \* the transient arrays of the last search
    pin,                \* history: the first search made and its outcome
    config,             \* the SearchConfig object, or the exception raised for it
    host,               \* the machine: CUDA device, vectorizer data under ./data
    threads             \* the locals of the requests evaluated concurrently

vars == <<disk, sortKind, phase, posts, embeddings_titles, embeddings_answer,
          topic_documents, call, result, trace, pin, config, host, threads>>

engine == <<posts, embeddings_titles, embeddings_answer, topic_documents>>

----------------------------------------------------------------------------
(* Bounds of the model *)

MaxPosts == 2
MaxTopN == 2
MaxBatch == 3

(* pandas' missing value in the ParentId column; post ids are >= 1 *)
NaN == 0

(* top_n: Optional[int]; None is <<>>, the integer n is <<n>> *)
None == <<>>
Some(n) == <<n>>

----------------------------------------------------------------------------
(* Small helpers *)

Min(a, b) == IF a < b THEN a ELSE b
Max(a, b) == IF a > b THEN a ELSE b
Range(s) == {s[i] : i \in DOMAIN s}

RECURSIVE SetMax(_)
SetMax(S) == LET x == CHOOSE y \in S : TRUE
             IN  IF S = {x} THEN x ELSE Max(x, SetMax(S \ {x}))

SetMin(S) == CHOOSE x \in S : \A y \in S : x <= y

(* d[k] = v on a dict *)
Put(d, k, v) == [x \in (DOMAIN d) \cup {k} |-> IF x = k THEN v ELSE d[x]]

(* the empty dict *)
EmptyDict == [x \in {} |-> 0]

----------------------------------------------------------------------------
(* The pretrained artifacts, as tables over text tokens *)

(* lda_model.transform(vectorizer.transform([text]))[0]: the topic          *)
(* probabilities (in percent) of each text, topic 0 first.                   *)
LdaTable ==
    << <<40, 30, 20, 10>>,
       <<10, 30, 20, 40>>,
       <<30, 10, 30, 30>>,
       <<20, 30, 30, 20>> >>

Texts == DOMAIN LdaTable
LdaTransform(text) == LdaTable[text]

(* model.encode([query], normalize_embeddings=True) of the two encoders *)
AnswerQueryTable == << <<1, 0>>, <<0, 1>>, <<0, 1>>, <<1, 0>> >>
QuestionQueryTable == << <<1, 0>>, <<1, 0>>, <<0, 1>>, <<0, 1>> >>

encode_query(query, model) == model[query]

(* the unit vectors a stored embedding is drawn from *)
Vecs == { <<1, 0>>, <<0, 1>> }

(* the title embedding of a post without a title: encode('') *)
EmptyTitleVec == <<0, 1>>

(* torch.cosine_similarity on unit vectors: the dot product *)
cosine_similarity(a, b) == a[1] * b[1] + a[2] * b[2]

----------------------------------------------------------------------------
(* ClusteringManager (src/src/models/clustering_manager.py) *)

(* Variant of SortedReverse that sorts ascending and reverses the list:    *)
(* equal values come out in reverse of their original order               *)
RECURSIVE SortedThenReversed(_, _)
SortedThenReversed(xs, left) ==
    IF left = {} THEN <<>>
    ELSE LET top == SetMax({xs[i] : i \in left})
             first == SetMax({i \in left : xs[i] = top})
         IN  <<first>> \o SortedThenReversed(xs, left \ {first})

(* The positions of xs by descending value, equal values in their original *)
(* order: Python's sorted(enumerate(xs), key=value, reverse=True), which   *)
(* is stable.                                                              *)
RECURSIVE SortedReverse(_, _)
SortedReverse(xs, left) ==
    IF left = {} THEN <<>>
    ELSE LET top == SetMax({xs[i] : i \in left})
             first == SetMin({i \in left : xs[i] = top})
         IN  <<first>> \o SortedReverse(xs, left \ {first})

(* max_indices = sorted(...)[:3]; [index for index, _ in max_indices] *)
MostProbableTopics(probs) ==
    LET order == SortedReverse(probs, DOMAIN probs)
    IN  [j \in 1..Min(3, Len(order)) |-> order[j] - 1]

(* Variant of AppendDocument that appends under the most probable topic    *)
(* on each of the three rounds: most_probable_topics[i][0]                 *)
RECURSIVE AppendDocumentTopOnly(_, _, _, _)
AppendDocumentTopOnly(td, topics, document_id, j) ==
    IF j > 3 THEN td
    ELSE LET t == topics[1]
             old == IF t \in DOMAIN td THEN td[t] ELSE <<>>
         IN  AppendDocumentTopOnly(Put(td, t, Append(old, document_id)),
                                   topics, document_id, j + 1)

(* for j in range(3): topic_documents[most_probable_topics[i][j]].append(id) *)
(* on a defaultdict(list).  LdaTable has at least 3 topics, so the index    *)
(* [j] always exists.                                                        *)
RECURSIVE AppendDocument(_, _, _, _)
AppendDocument(td, topics, document_id, j) ==
    IF j > 3 THEN td
    ELSE LET t == topics[j]
             old == IF t \in DOMAIN td THEN td[t] ELSE <<>>
         IN  AppendDocument(Put(td, t, Append(old, document_id)),
                            topics, document_id, j + 1)

RECURSIVE TopicDocumentsFrom(_, _, _)
TopicDocumentsFrom(ps, i, td) ==
    IF i > Len(ps) THEN td
    ELSE TopicDocumentsFrom(ps, i + 1,
            AppendDocument(td,
                           MostProbableTopics(LdaTransform(ps[i].cleaned_body)),
                           ps[i].Id, 1))

(* ClusteringManager.get_document_topics: dict(topic_documents) *)
get_document_topics(ps) == TopicDocumentsFrom(ps, 1, EmptyDict)

(* Variant of get_topic_query that takes the last position of the maximum *)
get_topic_query_last(query) ==
    LET probs == LdaTransform(query)
        top == SetMax(Range(probs))
    IN  SetMax({i \in DOMAIN probs : probs[i] = top}) - 1

(* ClusteringManager.get_topic_query: topic_assignments.argmax(axis=1)[0], *)
(* the first position of the maximum.                                      *)
get_topic_query(query) ==
    LET probs == LdaTransform(query)
        top == SetMax(Range(probs))
    IN  SetMin({i \in DOMAIN probs : probs[i] = top}) - 1

----------------------------------------------------------------------------
(* SemanticSearch (src/src/search/semantic_search.py) *)

(* the default batch_size of the two scoring methods *)
batch_size_default == 1024

(* list(d.keys()) of {post_id: ... for post_id in ids}: first occurrences *)
RECURSIVE DictKeys(_)
DictKeys(ids) ==
    IF ids = <<>> THEN <<>>
    ELSE LET front == DictKeys(SubSeq(ids, 1, Len(ids) - 1))
             last == ids[Len(ids)]
         IN  IF last \in Range(front) THEN front ELSE Append(front, last)

(* Variant of ScoreBatches that scores full batches only: the loop stops  *)
(* before a last batch shorter than batch_size                            *)
RECURSIVE ScoreBatchesFullOnly(_, _, _, _)
ScoreBatchesFullOnly(query_embedding, embs, i, batch_size) ==
    IF i + batch_size - 1 > Len(embs) THEN <<>>
    ELSE LET score == [k \in 1..batch_size |->
                          cosine_similarity(query_embedding, embs[i + k - 1])]
         IN  score \o ScoreBatchesFullOnly(query_embedding, embs, i + batch_size,
                                           batch_size)

(* for i in range(0, len(embs), batch_size):                               *)
(*     scores.extend(cosine_similarity(query_embedding, stack(embs[i:i+b]))) *)
RECURSIVE ScoreBatches(_, _, _, _)
ScoreBatches(query_embedding, embs, i, batch_size) ==
    IF i > Len(embs) THEN <<>>
    ELSE LET hi == Min(i + batch_size - 1, Len(embs))
             score == [k \in 1..(hi - i + 1) |->
                          cosine_similarity(query_embedding, embs[i + k - 1])]
         IN  score \o ScoreBatches(query_embedding, embs, i + batch_size, batch_size)

(* Variant of similarity_clustering that stacks the filtered embeddings   *)
(* last key first, so the scores come out in reverse candidate order      *)
similarity_clustering_reversed(query, model, relevant_posts, embeddings, batch_size) ==
    LET query_embedding == encode_query(query, model)
        relevant_ids == [i \in DOMAIN relevant_posts |-> relevant_posts[i].Id]
    IN  IF \E i \in DOMAIN relevant_ids : relevant_ids[i] \notin DOMAIN embeddings
        THEN [error |-> "KeyError", scores |-> <<>>]
        ELSE LET keys == DictKeys(relevant_ids)
                 filtered_embeddings ==
                     [i \in DOMAIN keys |-> embeddings[keys[Len(keys) + 1 - i]]]
             IN  IF Len(filtered_embeddings) = 0
                 THEN [error |-> "ValueError", scores |-> <<>>]
                 ELSE [error |-> "",
                       scores |-> ScoreBatches(query_embedding, filtered_embeddings,
                                               1, batch_size)]

(* Variant of similarity_clustering that reads embeddings.get(post_id,   *)
(* zeros): an absent embedding scores 0                                  *)
similarity_clustering_zero_fill(query, model, relevant_posts, embeddings, batch_size) ==
    LET query_embedding == encode_query(query, model)
        relevant_ids == [i \in DOMAIN relevant_posts |-> relevant_posts[i].Id]
        keys == DictKeys(relevant_ids)
        filtered_embeddings ==
            [i \in DOMAIN keys |-> IF keys[i] \in DOMAIN embeddings
                                   THEN embeddings[keys[i]] ELSE <<0, 0>>]
    IN  [error |-> "",
         scores |-> ScoreBatches(query_embedding, filtered_embeddings, 1, batch_size)]

(* SemanticSearch.similarity_clustering.  embeddings[post_id] on a dict    *)
(* raises KeyError for an id that is not a key.                            *)
similarity_clustering(query, model, relevant_posts, embeddings, batch_size) ==
    LET query_embedding == encode_query(query, model)
        relevant_ids == [i \in DOMAIN relevant_posts |-> relevant_posts[i].Id]
    IN  IF \E i \in DOMAIN relevant_ids : relevant_ids[i] \notin DOMAIN embeddings
        THEN [error |-> "KeyError", scores |-> <<>>]
        ELSE LET keys == DictKeys(relevant_ids)
                 filtered_embeddings == [i \in DOMAIN keys |-> embeddings[keys[i]]]
             IN  IF Len(filtered_embeddings) = 0
                 THEN [error |-> "ValueError", scores |-> <<>>]
                 ELSE [error |-> "",
                       scores |-> ScoreBatches(query_embedding, filtered_embeddings,
                                               1, batch_size)]

(* SemanticSearch.similarities_title_clustering: the embedding is looked   *)
(* up under the post's own Id.                                             *)
similarities_title_clustering(query, model, relevant_posts, embeddings, batch_size) ==
    LET query_embedding == encode_query(query, model)
        relevant_ids == [i \in DOMAIN relevant_posts |-> relevant_posts[i].Id]
    IN  IF \E i \in DOMAIN relevant_ids : relevant_ids[i] \notin DOMAIN embeddings
        THEN [error |-> "KeyError", scores |-> <<>>]
        ELSE LET filtered_embeddings ==
                     [i \in DOMAIN relevant_ids |-> embeddings[relevant_ids[i]]]
             IN  [error |-> "",
                  scores |-> ScoreBatches(query_embedding, filtered_embeddings,
                                          1, batch_size)]

(* np.argsort(-scores): positions by descending score.  The default kind   *)
(* is an unstable quicksort, so the order of equal scores is up to the     *)
(* build: kind "stable" keeps them in array order, "reversed" is another   *)
(* order a build may produce.                                              *)
RECURSIVE ArgsortDescending(_, _, _)
ArgsortDescending(scores, left, kind) ==
    IF left = {} THEN <<>>
    ELSE LET top == SetMax({scores[i] : i \in left})
             ties == {i \in left : scores[i] = top}
             next == IF kind = "stable" THEN SetMin(ties) ELSE SetMax(ties)
         IN  <<next>> \o ArgsortDescending(scores, left \ {next}, kind)

(* Variant of order_similarity without the negation: np.argsort(scores) *)
order_similarity_ascending(matrix_similarity, kind) ==
    ArgsortDescending([i \in DOMAIN matrix_similarity |-> 0 - matrix_similarity[i]],
                      DOMAIN matrix_similarity, kind)

(* SemanticSearch.order_similarity *)
order_similarity(matrix_similarity, kind) ==
    ArgsortDescending(matrix_similarity, DOMAIN matrix_similarity, kind)

----------------------------------------------------------------------------
(* SearchConfig defaults (src/src/utils/config.py), in tenths.  Their sum  *)
(* is 1.0, so __post_init__ leaves them as they are.                       *)

coeff1 == 3
coeff3 == 5

(* the default of the third coefficient, and 1.0, in tenths *)
coeff2 == 2
One == 10

(* A float is kept as an exact fraction <<numerator, denominator>> with a *)
(* positive denominator; c tenths is <<c, One>>.                          *)
Tenths(c) == <<c, One>>
FracDiv(a, b) == <<a[1] * b[2], a[2] * b[1]>>
FracEq(a, b) == a[1] * b[2] = b[1] * a[2]
FracAdd(a, b) == <<a[1] * b[2] + b[1] * a[2], a[2] * b[2]>>

NoConfig == [error |-> "none"]

(* Variant of SearchConfig that scales the coefficients down only when    *)
(* their sum exceeds 1.0                                                  *)
SearchConfigScaleDownOnly(data_path_exists, c1, c2, c3) ==
    LET total == c1 + c2 + c3
    IN  IF ~data_path_exists THEN [error |-> "ValueError"]
        ELSE IF ~(0 <= c1 /\ c1 <= One) THEN [error |-> "ValueError"]
        ELSE IF ~(0 <= c2 /\ c2 <= One) THEN [error |-> "ValueError"]
        ELSE IF ~(0 <= c3 /\ c3 <= One) THEN [error |-> "ValueError"]
        ELSE IF total > One
        THEN [error |-> "",
              coeff1 |-> FracDiv(Tenths(c1), Tenths(total)),
              coeff2 |-> FracDiv(Tenths(c2), Tenths(total)),
              coeff3 |-> FracDiv(Tenths(c3), Tenths(total))]
        ELSE [error |-> "", coeff1 |-> Tenths(c1), coeff2 |-> Tenths(c2),
              coeff3 |-> Tenths(c3)]

(* Variant of SearchConfig whose __post_init__ normalises the             *)
(* coefficients before the range checks                                   *)
SearchConfigNormaliseFirst(data_path_exists, c1, c2, c3) ==
    LET total == c1 + c2 + c3
        within(c, t) == IF t > 0 THEN 0 <= c /\ c <= t ELSE t <= c /\ c <= 0
    IN  IF ~data_path_exists THEN [error |-> "ValueError"]
        ELSE IF total = 0 THEN [error |-> "ZeroDivisionError"]
        ELSE IF ~within(c1, total) THEN [error |-> "ValueError"]
        ELSE IF ~within(c2, total) THEN [error |-> "ValueError"]
        ELSE IF ~within(c3, total) THEN [error |-> "ValueError"]
        ELSE [error |-> "",
              coeff1 |-> FracDiv(Tenths(c1), Tenths(total)),
              coeff2 |-> FracDiv(Tenths(c2), Tenths(total)),
              coeff3 |-> FracDiv(Tenths(c3), Tenths(total))]

(* SearchConfig(data_path=..., coeff1=c1, coeff2=c2, coeff3=c3) with the  *)
(* coefficients given in tenths: the dataclass __init__ followed by       *)
(* __post_init__.  error is "" and the three stored coefficients are      *)
(* present when an object is made; otherwise error names the exception.   *)
(* Dividing by a float 0.0 raises ZeroDivisionError.                      *)
SearchConfig(data_path_exists, c1, c2, c3) ==
    LET total == c1 + c2 + c3
    IN  IF ~data_path_exists THEN [error |-> "ValueError"]
        ELSE IF ~(0 <= c1 /\ c1 <= One) THEN [error |-> "ValueError"]
        ELSE IF ~(0 <= c2 /\ c2 <= One) THEN [error |-> "ValueError"]
        ELSE IF ~(0 <= c3 /\ c3 <= One) THEN [error |-> "ValueError"]
        ELSE IF total # One
        THEN IF total = 0 THEN [error |-> "ZeroDivisionError"]
             ELSE [error |-> "",
                   coeff1 |-> FracDiv(Tenths(c1), Tenths(total)),
                   coeff2 |-> FracDiv(Tenths(c2), Tenths(total)),
                   coeff3 |-> FracDiv(Tenths(c3), Tenths(total))]
        ELSE [error |-> "", coeff1 |-> Tenths(c1), coeff2 |-> Tenths(c2),
              coeff3 |-> Tenths(c3)]

(* create_default_config(): SearchConfig() *)
create_default_config == SearchConfig(TRUE, coeff1, coeff2, coeff3)

----------------------------------------------------------------------------
(* SearchEngine.search (src/src/core/search_engine.py) *)

(* Variant of PostsIsin that keeps every post of the frame *)
PostsIsinAll(ps, relevant_docs) == ps

(* self.posts[self.posts['Id'].isin(relevant_docs)] *)
PostsIsin(ps, relevant_docs) ==
    SelectSeq(ps, LAMBDA p : p.Id \in Range(relevant_docs))

(* similarity_semantic_answer * coeff1 + similarity_title * coeff3 *)
SimilarityPond(similarity_semantic_answer, similarity_title) ==
    [i \in DOMAIN similarity_semantic_answer |->
        similarity_semantic_answer[i] * coeff1 + similarity_title[i] * coeff3]

(* relevant_posts.iloc[ordre] : a new frame *)
Iloc(rows, ordre) == [i \in DOMAIN ordre |-> rows[ordre[i]]]

(* Variant of FillnaParentId that leaves the ParentId column as it is *)
FillnaParentIdSkipped(rows) == rows

(* top_posts["ParentId"] = top_posts["ParentId"].fillna(top_posts["Id"]) *)
FillnaParentId(rows) ==
    [i \in DOMAIN rows |->
        [rows[i] EXCEPT !.ParentId = IF @ = NaN THEN rows[i].Id ELSE @]]

(* top_posts["ParentId"].drop_duplicates(keep='first'): the ParentId     *)
(* values, each once, in order of first appearance                       *)
DropDuplicates(rows) == DictKeys([i \in DOMAIN rows |-> rows[i].ParentId])

(* top_posts[top_posts["ParentId"].isin(top_posts_id)]: the rows whose   *)
(* ParentId is one of the values of top_posts_id                         *)
ParentIdIsin(rows, top_posts_id) ==
    SelectSeq(rows, LAMBDA r : r.ParentId \in Range(top_posts_id))

(* "Handle parent-child relationships", lines 132-135 *)
HandleParentChild(rows) ==
    LET filled == FillnaParentId(rows)
    IN  ParentIdIsin(filled, DropDuplicates(filled))

(* Variant of Truncate that tests "if top_n:" - 0 counts as absent *)
TruncateIfTruthy(rows, top_n) ==
    IF top_n = None \/ top_n = Some(0) THEN rows
    ELSE LET n == top_n[1]
         IN  IF n >= 0 THEN SubSeq(rows, 1, Min(n, Len(rows)))
             ELSE SubSeq(rows, 1, Max(0, Len(rows) + n))

(* top_posts.iloc[:top_n] when top_n is not None; a negative top_n cuts  *)
(* rows off the end, as Python slices do                                 *)
Truncate(rows, top_n) ==
    IF top_n = None THEN rows
    ELSE LET n == top_n[1]
         IN  IF n >= 0 THEN SubSeq(rows, 1, Min(n, Len(rows)))
             ELSE SubSeq(rows, 1, Max(0, Len(rows) + n))

NoScores == [error |-> "", scores |-> <<>>]

(* The transient values of one search, up to the de-duplicated frame.    *)
(*   error: "" or the exception raised; empty: the early empty return    *)
SearchRun(query) ==
    LET topic_query == get_topic_query(query)
        blank == [error |-> "", empty |-> FALSE, topic |-> topic_query,
                  relevant_posts |-> <<>>, similarity_answer |-> <<>>,
                  similarity_title |-> <<>>, similarity_pond |-> <<>>,
                  ordre |-> <<>>, top_posts |-> <<>>]
    IN  IF topic_query \notin DOMAIN topic_documents
        THEN [blank EXCEPT !.error = "KeyError"]
        ELSE
        LET relevant_docs == topic_documents[topic_query]
            relevant_posts == PostsIsin(posts, relevant_docs)
        IN  IF Len(relevant_posts) = 0
            THEN [blank EXCEPT !.empty = TRUE]
            ELSE
            LET sa == similarity_clustering(query, AnswerQueryTable, relevant_posts,
                                            embeddings_answer, batch_size_default)
                st == IF sa.error = "" THEN
                         similarities_title_clustering(query, QuestionQueryTable,
                             relevant_posts, embeddings_titles, batch_size_default)
                      ELSE NoScores
            IN  IF sa.error # "" THEN
                    [blank EXCEPT !.error = sa.error,
                                  !.relevant_posts = relevant_posts]
                ELSE IF st.error # "" THEN
                    [blank EXCEPT !.error = st.error,
                                  !.relevant_posts = relevant_posts,
                                  !.similarity_answer = sa.scores]
                ELSE
                LET pond == SimilarityPond(sa.scores, st.scores)
                    ordre == order_similarity(pond, sortKind)
                    top_posts == HandleParentChild(Iloc(relevant_posts, ordre))
                IN  [blank EXCEPT !.relevant_posts = relevant_posts,
                                  !.similarity_answer = sa.scores,
                                  !.similarity_title = st.scores,
                                  !.similarity_pond = pond,
                                  !.ordre = ordre,
                                  !.top_posts = top_posts]

(* SearchEngine.search: the rows returned, or the exception raised *)
search(query, top_n) ==
    LET run == SearchRun(query)
    IN  IF run.error # "" THEN [status |-> run.error, rows |-> <<>>]
        ELSE IF run.empty THEN [status |-> "ok", rows |-> <<>>]
        ELSE [status |-> "ok", rows |-> Truncate(run.top_posts, top_n)]

(* Variant: top_posts is a view of self.posts, so the fillna of line 133 *)
(* is written into the stored rows of the candidates                     *)
PostsWrittenThrough(query) ==
    LET run == SearchRun(query)
        candidates == {run.relevant_posts[i].Id : i \in DOMAIN run.relevant_posts}
    IN  IF run.error # "" \/ run.empty THEN posts
        ELSE [i \in DOMAIN posts |->
                 IF posts[i].Id \in candidates /\ posts[i].ParentId = NaN
                 THEN [posts[i] EXCEPT !.ParentId = posts[i].Id]
                 ELSE posts[i]]

(* Variant: the ranked frame is kept as self.posts *)
PostsReassigned(query) ==
    LET run == SearchRun(query)
    IN  IF run.error # "" \/ run.empty THEN posts ELSE run.top_posts

(* self.posts after a search: search never assigns self.posts, and every *)
(* frame it writes to (boolean-mask selection, .iloc[list]) is a copy.   *)
PostsAfterSearch(query) == posts

(* ClusteringManager.get_documents_for_topic: *)
(* self.topic_documents.get(topic_id, [])      *)
get_documents_for_topic(topic_id) ==
    IF topic_id \in DOMAIN topic_documents THEN topic_documents[topic_id] ELSE <<>>

(* Variant of get_post_by_id without the length test: post.iloc[0] *)
get_post_by_id_unchecked(post_id) ==
    LET post == SelectSeq(posts, LAMBDA p : p.Id = post_id)
    IN  IF Len(post) > 0 THEN [status |-> "ok", rows |-> <<post[1]>>]
        ELSE [status |-> "IndexError", rows |-> <<>>]

(* SearchEngine.get_post_by_id: post.iloc[0] if len(post) > 0 else None *)
get_post_by_id(post_id) ==
    LET post == SelectSeq(posts, LAMBDA p : p.Id = post_id)
    IN  IF Len(post) > 0 THEN [status |-> "ok", rows |-> <<post[1]>>]
        ELSE [status |-> "None", rows |-> <<>>]

(* SearchEngine.get_stats: total_posts and total_topics are reported as  *)
(* a row of counters                                                     *)
get_stats ==
    [status |-> "ok",
     rows |-> << [total_posts |-> Len(posts),
                  total_topics |-> Cardinality(DOMAIN topic_documents)] >>]

----------------------------------------------------------------------------
(* The artifacts on disk *)

(* the files and pretrained encoders SearchEngine.__init__ asks for *)
Artifacts ==
    {"posts.pkl", "lda_model.pkl", "vectorizer_lda.pkl",
     "embeddings_titles_dict.pt", "embeddings_bodies_dict.pt",
     "question_query_model", "answer_query_model"}

(* Variant: the encoders are loaded behind an existence test as well *)
FatalArtifactsPicklesOnly ==
    {"posts.pkl", "lda_model.pkl", "vectorizer_lda.pkl"}

(* the artifacts whose absence raises inside __init__: open() of the     *)
(* three pickles, SentenceTransformer() of the two encoders              *)
FatalArtifacts ==
    {"posts.pkl", "lda_model.pkl", "vectorizer_lda.pkl",
     "question_query_model", "answer_query_model"}

(* texts of stored posts, and the queries asked *)
PostTexts == {1, 2}
Queries == Texts

(* Frames of n posts with Id 1..n in frame order.  Posts form a two      *)
(* level tree: an answer's ParentId is an earlier post that is a         *)
(* question.                                                             *)
PostsOfLen(n) ==
    LET shapes == {g \in [1..n -> (0..n) \X PostTexts] :
                      \A i \in 1..n :
                          \/ g[i][1] = NaN
                          \/ g[i][1] < i /\ g[g[i][1]][1] = NaN}
    IN  {[i \in 1..n |-> [Id |-> i, ParentId |-> g[i][1],
                          cleaned_body |-> g[i][2]]] : g \in shapes}

PostIds(ps) == {ps[i].Id : i \in DOMAIN ps}

(* The two dicts written by EmbeddingManager.save_embeddings: one entry  *)
(* per post Id.  A post without a Title (an answer) has the title        *)
(* embedding of the empty string.                                        *)
TitleDicts(ps) ==
    {m \in [PostIds(ps) -> Vecs] :
        \A i \in DOMAIN ps : ps[i].ParentId # NaN => m[ps[i].Id] = EmptyTitleVec}

BodyDicts(ps) == [PostIds(ps) -> Vecs]

DisksOf(ps) ==
    {[posts |-> ps, titles |-> t, answers |-> a, absent |-> {}] :
        t \in TitleDicts(ps), a \in BodyDicts(ps)}

DisksUpTo(n) == UNION {DisksOf(ps) : ps \in UNION {PostsOfLen(k) : k \in 0..n}}

(* The end-to-end corpus: Q1=1, A1=2 (parent 1), Q2=3, A2=4, A3=5 (parent *)
(* 3), all in one topic; for query 3 the fused scores are 3, 8, 0, 5, 2, *)
(* so the rank order is [2, 4, 1, 5, 3].                                 *)
EndToEndDisk ==
    [posts |-> << [Id |-> 1, ParentId |-> NaN, cleaned_body |-> 1],
                  [Id |-> 2, ParentId |-> 1, cleaned_body |-> 1],
                  [Id |-> 3, ParentId |-> NaN, cleaned_body |-> 1],
                  [Id |-> 4, ParentId |-> 3, cleaned_body |-> 1],
                  [Id |-> 5, ParentId |-> 3, cleaned_body |-> 1] >>,
     titles |-> << <<1, 0>>, EmptyTitleVec, <<1, 0>>, EmptyTitleVec, EmptyTitleVec >>,
     answers |-> << <<0, 1>>, <<0, 1>>, <<1, 0>>, <<1, 0>>, <<0, -1>> >>,
     absent |-> {}]

Disks == DisksUpTo(MaxPosts) \cup {EndToEndDisk}

----------------------------------------------------------------------------
(* State machine *)

NoCall == [op |-> "", query |-> 0, top_n |-> None, post_id |-> 0]
NoResult == [status |-> "", rows |-> <<>>]
NoTrace == <<>>
NoPin == <<>>
NoThreads == <<>>

(* The machines the engine runs on: with or without a CUDA device, with  *)
(* or without Vocabulaire.pkl and docs_matrix.pkl under ./data           *)
Hosts == [cuda : BOOLEAN, vectorizer_data : BOOLEAN]
DefaultHost == [cuda |-> FALSE, vectorizer_data |-> FALSE]

InitEngine ==
    /\ phase = "new"
    /\ posts = <<>>
    /\ embeddings_titles = EmptyDict
    /\ embeddings_answer = EmptyDict
    /\ topic_documents = EmptyDict
    /\ call = NoCall
    /\ result = NoResult
    /\ trace = NoTrace
    /\ pin = NoPin
    /\ threads = NoThreads

Init ==
    /\ disk \in Disks
    /\ sortKind \in {"stable", "reversed"}
    /\ config = create_default_config
    /\ host = DefaultHost
    /\ InitEngine

(* EmbeddingManager._load_embeddings: a dict is loaded when its file     *)
(* exists and stays {} otherwise                                         *)
LoadEmbeddings(file, dict) == IF file \in disk.absent THEN EmptyDict ELSE dict

(* SearchEngine.__init__ (through SearchEngineAPI.__init__): _load_data, *)
(* EmbeddingManager, ClusteringManager, then the topic index.  An        *)
(* exception leaves no engine object.                                    *)
Construct ==
    /\ phase = "new"
    /\ IF disk.absent \cap FatalArtifacts # {}
       THEN /\ phase' = "failed"
            /\ UNCHANGED engine
       ELSE /\ phase' = "ready"
            /\ posts' = disk.posts
            /\ embeddings_titles' =
                   LoadEmbeddings("embeddings_titles_dict.pt", disk.titles)
            /\ embeddings_answer' =
                   LoadEmbeddings("embeddings_bodies_dict.pt", disk.answers)
            /\ topic_documents' = get_document_topics(disk.posts)
    /\ UNCHANGED <<disk, sortKind, config, host, threads, call, result, trace, pin>>

(* the values of top_n tried: absent, -1..MaxTopN, and the size of the   *)
(* end-to-end corpus                                                     *)
TopNs == {None} \cup {Some(n) : n \in -1..MaxTopN}
                \cup {Some(Len(EndToEndDisk.posts))}

(* a shorter list of values of top_n *)
FewTopNs == {None, Some(1)}

(* The engine is synchronous: a call is made when no call is in flight *)
Idle == phase = "ready" /\ call = NoCall

SearchCall(query, top_n) ==
    /\ Idle
    /\ call' = [op |-> "search", query |-> query, top_n |-> top_n, post_id |-> 0]
    /\ result' = search(query, top_n)
    /\ trace' = SearchRun(query)
    /\ posts' = PostsAfterSearch(query)
    /\ UNCHANGED <<disk, sortKind, config, host, threads, phase, embeddings_titles, embeddings_answer,
                   topic_documents>>

Search ==
    \E query \in Queries, top_n \in TopNs :
        SearchCall(query, top_n) /\ UNCHANGED pin

GetPostById ==
    \E post_id \in 0..(MaxPosts + 1) :
        /\ Idle
        /\ call' = [op |-> "get_post_by_id", query |-> 0, top_n |-> None,
                    post_id |-> post_id]
        /\ result' = get_post_by_id(post_id)
        /\ trace' = NoTrace
        /\ UNCHANGED <<disk, sortKind, config, host, threads, phase, engine, pin>>

GetStats ==
    /\ Idle
    /\ call' = [op |-> "get_stats", query |-> 0, top_n |-> None, post_id |-> 0]
    /\ result' = get_stats
    /\ trace' = NoTrace
    /\ UNCHANGED <<disk, sortKind, config, host, threads, phase, engine, pin>>

(* SearchEngineAPI.health_check: every model attribute is set once      *)
(* __init__ has returned, so the status rests on the two embedding dicts *)
(* being non-empty                                                       *)
health_check ==
    LET all_models_loaded == phase = "ready"
        embeddings_loaded == /\ Cardinality(DOMAIN embeddings_titles) > 0
                             /\ Cardinality(DOMAIN embeddings_answer) > 0
    IN  [status |-> IF all_models_loaded /\ embeddings_loaded
                    THEN "healthy" ELSE "degraded",
         rows |-> <<>>]

HealthCheck ==
    /\ Idle
    /\ call' = [op |-> "health_check", query |-> 0, top_n |-> None, post_id |-> 0]
    /\ result' = health_check
    /\ trace' = NoTrace
    /\ UNCHANGED <<disk, sortKind, config, host, threads, phase, engine, pin>>

(* The call returns: the caller takes the result, and the transient     *)
(* values of the call are discarded                                      *)
Return ==
    /\ call # NoCall
    /\ call' = NoCall
    /\ result' = NoResult
    /\ trace' = NoTrace
    /\ UNCHANGED <<disk, sortKind, config, host, threads, phase, engine, pin>>

Next == Construct \/ Search \/ GetPostById \/ GetStats \/ HealthCheck \/ Return

Spec == Init /\ [][Next]_vars

----------------------------------------------------------------------------
(* Damaged artifact directories: files or encoders absent, or an          *)
(* embedding dict that lacks the entry of one post                        *)

Without(dict, k) == [x \in (DOMAIN dict) \ {k} |-> dict[x]]

(* one artifact absent, or both embedding files *)
AbsentSets ==
    {{}} \cup {{a} : a \in Artifacts}
         \cup {{"embeddings_titles_dict.pt", "embeddings_bodies_dict.pt"}}

FaultyDisksOf(d) ==
    {[d EXCEPT !.absent = a] : a \in AbsentSets}
    \cup {[d EXCEPT !.titles = Without(d.titles, k)] : k \in PostIds(d.posts)}
    \cup {[d EXCEPT !.answers = Without(d.answers, k)] : k \in PostIds(d.posts)}

FaultyDisksUpTo(n) == UNION {FaultyDisksOf(d) : d \in DisksUpTo(n)}

InitArtifacts ==
    /\ disk \in FaultyDisksUpTo(MaxPosts)
    /\ sortKind \in {"stable", "reversed"}
    /\ config = create_default_config
    /\ host = DefaultHost
    /\ InitEngine

SearchFew ==
    \E query \in Queries, top_n \in FewTopNs :
        SearchCall(query, top_n) /\ UNCHANGED pin

NextArtifacts ==
    Construct \/ SearchFew \/ GetPostById \/ GetStats \/ HealthCheck \/ Return

SpecArtifacts == InitArtifacts /\ [][NextArtifacts]_vars

----------------------------------------------------------------------------
(* Repeated queries: the first search made is remembered with its outcome *)

(* stage "first": only the remembered search and repeats of it have run; *)
(* "between": some other search ran after it; "again": the remembered    *)
(* search ran once more after that                                       *)
PinAfter(query, top_n) ==
    IF pin = NoPin
    THEN [query |-> query, top_n |-> top_n, result |-> search(query, top_n),
          stage |-> "first"]
    ELSE IF pin.query = query /\ pin.top_n = top_n
    THEN [pin EXCEPT !.stage = IF @ = "first" THEN "first" ELSE "again"]
    ELSE [pin EXCEPT !.stage = IF @ = "first" THEN "between" ELSE @]

SearchRecorded ==
    \E query \in Queries, top_n \in FewTopNs :
        /\ SearchCall(query, top_n)
        /\ pin' = PinAfter(query, top_n)

InitRepeat ==
    /\ disk \in Disks
    /\ sortKind \in {"stable", "reversed"}
    /\ config = create_default_config
    /\ host = DefaultHost
    /\ InitEngine

NextRepeat == Construct \/ SearchRecorded \/ Return

SpecRepeat == InitRepeat /\ [][NextRepeat]_vars

----------------------------------------------------------------------------
(* The alternate modes and the API layer                                   *)
(* (src/search/semantic_search.py, src/search/vector_search.py,            *)
(*  backend/api/search_engine.py)                                          *)

(* SearchConfig.default_top_n *)
default_top_n == 20

(* order[:top_n] on a list, top_n an int *)
ListPrefix(xs, n) ==
    IF n >= 0 THEN SubSeq(xs, 1, Min(n, Len(xs)))
    ELSE SubSeq(xs, 1, Max(0, Len(xs) + n))

(* SemanticSearch.similarity(query, model, embeddings): it slices          *)
(* embeddings[i:i+batch_size], which a list supports.  The engine passes   *)
(* the dict embeddings_answer: with no keys the loop body never runs, with *)
(* keys the slice is used as a dict key and the lookup raises.             *)
similarity(query, model, embeddings, batch_size) ==
    IF Cardinality(DOMAIN embeddings) = 0
    THEN [error |-> "", scores |-> <<>>]
    ELSE [error |-> "TypeError", scores |-> <<>>]

(* SemanticSearch.closest_semantic_doc: self.posts.iloc[ordre[:top_n]] *)
closest_semantic_doc(query, model, embeddings, top_n) ==
    LET matrix_similarity == similarity(query, model, embeddings, batch_size_default)
    IN  IF matrix_similarity.error # ""
        THEN [status |-> matrix_similarity.error, rows |-> <<>>]
        ELSE LET ordre == ArgsortDescending(matrix_similarity.scores,
                                            DOMAIN matrix_similarity.scores, sortKind)
             IN  [status |-> "ok", rows |-> Iloc(posts, ListPrefix(ordre, top_n))]

(* VectorSearch.vectorizer_search: the cosine of the bag-of-words count    *)
(* vectors of the query and of each document (row i of docs_matrix is post *)
(* i of the frame).  A text is one word here, so the cosine is 1 for the   *)
(* same word and 0 otherwise.  Both tensors are moved with .to("cuda"),    *)
(* which raises on a machine without a CUDA device.                        *)
vectorizer_search(query, h) ==
    IF ~h.cuda THEN [error |-> "RuntimeError", scores |-> <<>>]
    ELSE [error |-> "",
          scores |-> [i \in DOMAIN posts |->
                         IF posts[i].cleaned_body = query THEN 1 ELSE 0]]

(* VectorSearch.search on the component: vocabulaire and docs_matrix are   *)
(* None when _load_vectorizer_data did not find the files                  *)
VectorSearch_search(query, top_n, h) ==
    IF ~h.vectorizer_data THEN [status |-> "ValueError", rows |-> <<>>]
    ELSE LET scores == vectorizer_search(query, h)
         IN  IF scores.error # "" THEN [status |-> scores.error, rows |-> <<>>]
             ELSE LET order == ArgsortDescending(scores.scores, DOMAIN scores.scores,
                                                 sortKind)
                  IN  [status |-> "ok", rows |-> Iloc(posts, ListPrefix(order, top_n))]

(* The names _initialize_components assigns on the instance (lines 73 and  *)
(* 78).  An instance attribute hides the method of the same name defined   *)
(* in the class (lines 143 and 161).                                       *)
ComponentAttributes == {"semantic_search", "vector_search"}

(* self.search_engine.semantic_search(query, top_n): the attribute is the  *)
(* SemanticSearch component, and calling it raises TypeError ("object is   *)
(* not callable")                                                          *)
semantic_search(query, top_n) ==
    IF "semantic_search" \in ComponentAttributes
    THEN [status |-> "TypeError", rows |-> <<>>]
    ELSE closest_semantic_doc(query, AnswerQueryTable, embeddings_answer, top_n)

(* self.search_engine.vector_search(query, top_n): likewise *)
vector_search(query, top_n) ==
    IF "vector_search" \in ComponentAttributes
    THEN [status |-> "TypeError", rows |-> <<>>]
    ELSE VectorSearch_search(query, top_n, host)

SearchTypes == {"clustering", "semantic", "vector", "lexical"}

(* SearchResponse: the fields without a default *)
SearchResponseRequired ==
    {"success", "query", "search_type", "results", "total_results", "execution_time"}

(* the rows of a frame as the dictionaries of lines 59-68; parent_id is  *)
(* None (NaN here) for a row whose ParentId is missing                    *)
ResultsList(rows) ==
    [i \in DOMAIN rows |-> [id |-> rows[i].Id, parent_id |-> rows[i].ParentId]]

(* Variant of api_response whose except branch answers with an empty       *)
(* result list                                                             *)
api_response_swallow(raw, query, search_type) ==
    IF raw.status = "ok"
    THEN [success |-> TRUE, query |-> query, search_type |-> search_type,
          results |-> ResultsList(raw.rows), total_results |-> Len(raw.rows),
          execution_time |-> 0]
    ELSE [success |-> TRUE, query |-> query, search_type |-> search_type,
          results |-> <<>>, total_results |-> 0, execution_time |-> 0]

(* SearchEngineAPI.search, lines 57-86: the dictionary returned.  On the   *)
(* success path (lines 70-77) it has the keys success, query, search_type, *)
(* results, total_results, execution_time; in the except branch (lines     *)
(* 80-86) success, error, query, search_type, execution_time.  Elapsed     *)
(* time is not measured here: execution_time is 0.                         *)
api_response(raw, query, search_type) ==
    IF raw.status = "ok"
    THEN [success |-> TRUE, query |-> query, search_type |-> search_type,
          results |-> ResultsList(raw.rows), total_results |-> Len(raw.rows),
          execution_time |-> 0]
    ELSE [success |-> FALSE, error |-> raw.status, query |-> query,
          search_type |-> search_type, execution_time |-> 0]

(* top_n or self.config.default_top_n *)
TopNOrDefault(top_n) ==
    IF top_n = None \/ top_n = Some(0) THEN default_top_n ELSE top_n[1]

(* SearchEngineAPI.search, lines 47-55: the call made for a search_type *)
api_dispatch(query, top_n, search_type) ==
    IF search_type = "clustering" THEN search(query, top_n)
    ELSE IF search_type = "semantic" THEN semantic_search(query, TopNOrDefault(top_n))
    ELSE IF search_type = "vector" THEN vector_search(query, TopNOrDefault(top_n))
    ELSE [status |-> "ValueError", rows |-> <<>>]

(* SearchEngineAPI.search *)
api_search(query, top_n, search_type) ==
    api_response(api_dispatch(query, top_n, search_type), query, search_type)

(* SearchEngineAPI.get_post: {'success': True, 'post': {...}}, or success *)
(* False with a message: not found, or the text of an exception          *)
api_get_post(post_id) ==
    LET post == get_post_by_id(post_id)
    IN  IF post.status = "None"
        THEN [success |-> FALSE, error |-> "not found"]
        ELSE IF post.status = "ok"
        THEN [success |-> TRUE, post |-> ResultsList(post.rows)[1]]
        ELSE [success |-> FALSE, error |-> post.status]

ApiCall(op, query, top_n, post_id, search_type) ==
    [op |-> op, query |-> query, top_n |-> top_n, post_id |-> post_id,
     search_type |-> search_type]

ApiSearch ==
    \E query \in Queries, top_n \in FewTopNs, search_type \in SearchTypes :
        /\ Idle
        /\ call' = ApiCall("api.search", query, top_n, 0, search_type)
        /\ result' = api_search(query, top_n, search_type)
        /\ trace' = NoTrace
        /\ posts' = PostsAfterSearch(query)
        /\ UNCHANGED <<disk, sortKind, config, host, threads, phase,
                       embeddings_titles, embeddings_answer, topic_documents, pin>>

ApiGetPost ==
    \E post_id \in 0..(MaxPosts + 1) :
        /\ Idle
        /\ call' = ApiCall("api.get_post", 0, None, post_id, "")
        /\ result' = api_get_post(post_id)
        /\ trace' = NoTrace
        /\ UNCHANGED <<disk, sortKind, config, host, threads, phase, engine, pin>>

(* search_engine.semantic_search(query, top_n) and                        *)
(* search_engine.vector_search(query, top_n) called on the engine         *)
EngineMode ==
    \E query \in Queries, top_n \in 1..MaxTopN, mode \in {"semantic", "vector"} :
        /\ Idle
        /\ call' = ApiCall("engine.mode", query, Some(top_n), 0, mode)
        /\ result' = IF mode = "semantic" THEN semantic_search(query, top_n)
                     ELSE vector_search(query, top_n)
        /\ trace' = NoTrace
        /\ UNCHANGED <<disk, sortKind, config, host, threads, phase, engine, pin>>

(* search_engine.vector_search.search(query, top_n): the method of the    *)
(* VectorSearch component                                                 *)
ComponentVectorSearch ==
    \E query \in Queries, top_n \in 1..MaxTopN :
        /\ Idle
        /\ call' = ApiCall("VectorSearch.search", query, Some(top_n), 0, "vector")
        /\ result' = VectorSearch_search(query, top_n, host)
        /\ trace' = NoTrace
        /\ UNCHANGED <<disk, sortKind, config, host, threads, phase, engine, pin>>

InitApi ==
    /\ disk \in Disks
    /\ sortKind \in {"stable", "reversed"}
    /\ config = create_default_config
    /\ host \in Hosts
    /\ InitEngine

NextApi ==
    \/ Construct \/ ApiSearch \/ ApiGetPost \/ GetPostById \/ EngineMode
    \/ ComponentVectorSearch \/ Return

SpecApi == InitApi /\ [][NextApi]_vars

----------------------------------------------------------------------------
(* Two requests evaluated at the same time on one engine, without a lock: *)
(* each request runs SearchEngineAPI.search in its own thread, and the    *)
(* threads interleave between the stages of the pipeline.  A thread's     *)
(* record holds the local variables of its call.                          *)

Threads == {1, 2}

NoResponse == [success |-> FALSE, error |-> ""]

IdleThread ==
    [pc |-> "idle", query |-> 0, top_n |-> None, search_type |-> "",
     overlapped |-> FALSE,
     relevant_docs |-> <<>>, relevant_posts |-> <<>>,
     similarity_answer |-> <<>>, similarity_title |-> <<>>,
     similarity_pond |-> <<>>, ordre |-> <<>>, top_posts |-> <<>>,
     raw |-> NoResult, response |-> NoResponse]

(* the requests a thread may carry *)
ThreadRequests ==
    {[query |-> q, top_n |-> n, search_type |-> "clustering"] :
        q \in {1, 2}, n \in FewTopNs}
    \cup {[query |-> 1, top_n |-> None, search_type |-> t] :
            t \in {"vector", "lexical"}}

(* some other thread is inside its call *)
OthersRunning(t) ==
    \E u \in Threads \ {t} : threads[u].pc \notin {"idle", "done"}

(* thread t moves to pc with the locals given in changes *)
Goto(t, pc, changes) ==
    [threads EXCEPT ![t] =
        [f \in DOMAIN threads[t] |->
            IF f = "pc" THEN pc
            ELSE IF f = "overlapped" THEN threads[t].overlapped \/ OthersRunning(t)
            ELSE IF f \in DOMAIN changes THEN changes[f]
            ELSE threads[t][f]]]

(* the call raises: control passes to the except branch of the API *)
Raise(t, error) == Goto(t, "respond", [raw |-> [status |-> error, rows |-> <<>>]])

(* Variant: the de-duplication stage keeps its frame as self.posts *)
PostsAfterStageKept(stage, frame) == IF stage = "dedup" THEN frame ELSE posts

(* self.posts after a stage of search: no stage assigns it, and the       *)
(* frames a stage writes to are copies                                    *)
PostsAfterStage(stage, frame) == posts

ThreadFrame ==
    UNCHANGED <<disk, sortKind, config, host, phase, embeddings_titles,
                embeddings_answer, topic_documents, call, result, trace, pin>>

(* a request arrives (main.py /search) and its handler is entered;       *)
(* threads are numbered in the order their requests arrive               *)
ThreadAccept ==
    \E t \in Threads, r \in ThreadRequests :
        /\ phase = "ready"
        /\ threads[t].pc = "idle"
        /\ \A u \in Threads : u < t => threads[u].pc # "idle"
        /\ threads' = Goto(t, "dispatch",
                           [query |-> r.query, top_n |-> r.top_n,
                            search_type |-> r.search_type])
        /\ UNCHANGED posts /\ ThreadFrame

(* SearchEngineAPI.search, lines 47-55 *)
ThreadDispatch ==
    \E t \in Threads :
        LET my == threads[t] IN
        /\ my.pc = "dispatch"
        /\ threads' =
              IF my.search_type = "clustering" THEN Goto(t, "topic", <<>>)
              ELSE Goto(t, "respond",
                        [raw |-> api_dispatch(my.query, my.top_n, my.search_type)])
        /\ UNCHANGED posts /\ ThreadFrame

(* search, lines 98-99 *)
ThreadTopic ==
    \E t \in Threads :
        LET my == threads[t]
            topic_query == get_topic_query(my.query)
        IN  /\ my.pc = "topic"
            /\ threads' =
                  IF topic_query \notin DOMAIN topic_documents
                  THEN Raise(t, "KeyError")
                  ELSE Goto(t, "candidates",
                            [relevant_docs |-> topic_documents[topic_query]])
            /\ posts' = PostsAfterStage("topic", <<>>) /\ ThreadFrame

(* search, lines 102-105 *)
ThreadCandidates ==
    \E t \in Threads :
        LET my == threads[t]
            relevant_posts == PostsIsin(posts, my.relevant_docs)
        IN  /\ my.pc = "candidates"
            /\ threads' =
                  IF Len(relevant_posts) = 0
                  THEN Goto(t, "respond", [raw |-> [status |-> "ok", rows |-> <<>>]])
                  ELSE Goto(t, "answer", [relevant_posts |-> relevant_posts])
            /\ posts' = PostsAfterStage("candidates", relevant_posts) /\ ThreadFrame

(* search, lines 108-113 *)
ThreadAnswer ==
    \E t \in Threads :
        LET my == threads[t]
            sa == similarity_clustering(my.query, AnswerQueryTable, my.relevant_posts,
                                        embeddings_answer, batch_size_default)
        IN  /\ my.pc = "answer"
            /\ threads' = IF sa.error # "" THEN Raise(t, sa.error)
                          ELSE Goto(t, "title", [similarity_answer |-> sa.scores])
            /\ posts' = PostsAfterStage("answer", my.relevant_posts) /\ ThreadFrame

(* search, lines 115-120 *)
ThreadTitle ==
    \E t \in Threads :
        LET my == threads[t]
            st == similarities_title_clustering(my.query, QuestionQueryTable,
                      my.relevant_posts, embeddings_titles, batch_size_default)
        IN  /\ my.pc = "title"
            /\ threads' = IF st.error # "" THEN Raise(t, st.error)
                          ELSE Goto(t, "fuse", [similarity_title |-> st.scores])
            /\ posts' = PostsAfterStage("title", my.relevant_posts) /\ ThreadFrame

(* search, lines 123-130 *)
ThreadFuseAndOrder ==
    \E t \in Threads :
        LET my == threads[t]
            pond == SimilarityPond(my.similarity_answer, my.similarity_title)
        IN  /\ my.pc = "fuse"
            /\ threads' = Goto(t, "dedup",
                               [similarity_pond |-> pond,
                                ordre |-> order_similarity(pond, sortKind)])
            /\ posts' = PostsAfterStage("fuse", my.relevant_posts) /\ ThreadFrame

(* search, lines 130-135 *)
ThreadDedup ==
    \E t \in Threads :
        LET my == threads[t]
            top_posts == HandleParentChild(Iloc(my.relevant_posts, my.ordre))
        IN  /\ my.pc = "dedup"
            /\ threads' = Goto(t, "truncate", [top_posts |-> top_posts])
            /\ posts' = PostsAfterStage("dedup", top_posts) /\ ThreadFrame

(* search, lines 138-141 *)
ThreadTruncate ==
    \E t \in Threads :
        LET my == threads[t]
            rows == Truncate(my.top_posts, my.top_n)
        IN  /\ my.pc = "truncate"
            /\ threads' = Goto(t, "respond", [raw |-> [status |-> "ok", rows |-> rows]])
            /\ posts' = PostsAfterStage("truncate", rows) /\ ThreadFrame

(* SearchEngineAPI.search, lines 57-86 *)
ThreadRespond ==
    \E t \in Threads :
        LET my == threads[t] IN
        /\ my.pc = "respond"
        /\ threads' = Goto(t, "done",
                           [response |-> api_response(my.raw, my.query, my.search_type)])
        /\ UNCHANGED posts /\ ThreadFrame

(* Corpora of n posts, whole or with the title embedding of the last      *)
(* post missing                                                           *)
ConcurrentDisks(n) ==
    LET whole == UNION {DisksOf(ps) : ps \in PostsOfLen(n)}
    IN  whole \cup {[d EXCEPT !.titles = Without(d.titles, n)] : d \in whole}

InitConcurrent ==
    /\ disk \in ConcurrentDisks(MaxPosts)
    /\ sortKind = "stable"
    /\ config = create_default_config
    /\ host = DefaultHost
    /\ phase = "new"
    /\ posts = <<>>
    /\ embeddings_titles = EmptyDict
    /\ embeddings_answer = EmptyDict
    /\ topic_documents = EmptyDict
    /\ call = NoCall
    /\ result = NoResult
    /\ trace = NoTrace
    /\ pin = NoPin
    /\ threads = [t \in Threads |-> IdleThread]

NextConcurrent ==
    \/ Construct
    \/ ThreadAccept \/ ThreadDispatch \/ ThreadTopic \/ ThreadCandidates
    \/ ThreadAnswer \/ ThreadTitle \/ ThreadFuseAndOrder \/ ThreadDedup
    \/ ThreadTruncate \/ ThreadRespond

SpecConcurrent == InitConcurrent /\ [][NextConcurrent]_vars

----------------------------------------------------------------------------
(* The two scoring methods of SemanticSearch called with a batch size     *)

(* the batch sizes tried: 1..MaxBatch, 7 and the default *)
BatchSizes == (1..MaxBatch) \cup {7, batch_size_default}

(* the array a scoring method returns, or the exception it raises *)
ScoresReturned(r) ==
    [status |-> IF r.error = "" THEN "ok" ELSE r.error, rows |-> r.scores]

(* semantic_search.similarity_clustering(query, answer_query_model,       *)
(* relevant_posts, embeddings_answer, batch_size) and                     *)
(* semantic_search.similarities_title_clustering(query,                   *)
(* question_query_model, relevant_posts, embeddings_titles, batch_size)   *)
score_batch(method, query, relevant_posts, batch_size) ==
    IF method = "answer"
    THEN ScoresReturned(similarity_clustering(query, AnswerQueryTable, relevant_posts,
                                              embeddings_answer, batch_size))
    ELSE ScoresReturned(similarities_title_clustering(query, QuestionQueryTable,
                            relevant_posts, embeddings_titles, batch_size))

(* the frame passed as relevant_posts: the whole corpus, or the members   *)
(* of the query's topic                                                   *)
FrameOf(scope, query) ==
    IF scope = "corpus" THEN posts
    ELSE PostsIsin(posts, get_documents_for_topic(get_topic_query(query)))

ScoreBatch ==
    \E method \in {"answer", "title"}, query \in Queries,
       scope \in {"corpus", "topic"}, batch_size \in BatchSizes :
        /\ Idle
        /\ call' = [op |-> "score_batch", method |-> method, query |-> query,
                    scope |-> scope, batch_size |-> batch_size]
        /\ result' = score_batch(method, query, FrameOf(scope, query), batch_size)
        /\ trace' = NoTrace
        /\ UNCHANGED <<disk, sortKind, config, host, threads, phase, engine, pin>>

InitScoring ==
    /\ disk \in Disks
    /\ sortKind = "stable"
    /\ config = create_default_config
    /\ host = DefaultHost
    /\ InitEngine

NextScoring == Construct \/ ScoreBatch \/ Return

SpecScoring == InitScoring /\ [][NextScoring]_vars

----------------------------------------------------------------------------
(* The topic index and the lookups of ClusteringManager.  The manager     *)
(* builds its own topic_documents with the call the engine makes (line    *)
(* 36); the two dicts have the same content and one variable holds both.  *)

(* Variant of get_topics_for_document without the doc_mask.any() test:    *)
(* idxmax of a mask without a True is its first label, and raises on an   *)
(* empty frame                                                            *)
get_topics_for_document_unchecked(document_id) ==
    LET found == SelectSeq(posts, LAMBDA p : p.Id = document_id)
    IN  IF Len(posts) = 0 THEN [status |-> "ValueError", rows |-> <<>>]
        ELSE LET doc_text == IF Len(found) = 0 THEN posts[1].cleaned_body
                             ELSE found[1].cleaned_body
             IN  [status |-> "ok", rows |-> MostProbableTopics(LdaTransform(doc_text))]

(* ClusteringManager.get_topics_for_document *)
get_topics_for_document(document_id) ==
    LET found == SelectSeq(posts, LAMBDA p : p.Id = document_id)
    IN  IF Len(found) = 0 THEN [status |-> "ok", rows |-> <<>>]
        ELSE [status |-> "ok",
              rows |-> MostProbableTopics(LdaTransform(found[1].cleaned_body))]

(* Variant: topic_documents is left a defaultdict(list) and read with     *)
(* topic_documents[topic_id], which stores [] under a new key             *)
TopicDocumentsAfterGetDefaultdict(topic_id) ==
    IF topic_id \in DOMAIN topic_documents THEN topic_documents
    ELSE Put(topic_documents, topic_id, <<>>)

(* topic_documents after get_documents_for_topic: dict.get stores nothing *)
TopicDocumentsAfterGet(topic_id) == topic_documents

(* the topic ids of the model, 0-based *)
TopicIds == 0..(Len(LdaTable[1]) - 1)

TopicCall(op, query, topic_id, document_id) ==
    [op |-> op, query |-> query, topic_id |-> topic_id, document_id |-> document_id]

GetTopicQuery ==
    \E query \in Queries :
        /\ Idle
        /\ call' = TopicCall("get_topic_query", query, 0, 0)
        /\ result' = [status |-> "ok", rows |-> <<get_topic_query(query)>>]
        /\ trace' = NoTrace
        /\ UNCHANGED <<disk, sortKind, config, host, threads, phase, engine, pin>>

GetDocumentsForTopic ==
    \E topic_id \in (0 - 1)..Len(LdaTable[1]) :
        /\ Idle
        /\ call' = TopicCall("get_documents_for_topic", 0, topic_id, 0)
        /\ result' = [status |-> "ok", rows |-> get_documents_for_topic(topic_id)]
        /\ topic_documents' = TopicDocumentsAfterGet(topic_id)
        /\ trace' = NoTrace
        /\ UNCHANGED <<disk, sortKind, config, host, threads, phase, posts,
                       embeddings_titles, embeddings_answer, pin>>

GetTopicsForDocument ==
    \E document_id \in 0..(MaxPosts + 2) :
        /\ Idle
        /\ call' = TopicCall("get_topics_for_document", 0, 0, document_id)
        /\ result' = get_topics_for_document(document_id)
        /\ trace' = NoTrace
        /\ UNCHANGED <<disk, sortKind, config, host, threads, phase, engine, pin>>

(* Corpora of n root posts with any of the texts; every embedding is the  *)
(* same vector, since the topic index reads cleaned_body only             *)
TopicDisksOfLen(n) ==
    {[posts |-> [i \in 1..n |-> [Id |-> i, ParentId |-> NaN, cleaned_body |-> b[i]]],
      titles |-> [i \in 1..n |-> <<1, 0>>],
      answers |-> [i \in 1..n |-> <<1, 0>>],
      absent |-> {}] : b \in [1..n -> Texts]}

TopicDisks(n) == UNION {TopicDisksOfLen(k) : k \in 0..n}

InitTopics ==
    /\ disk \in TopicDisks(MaxPosts + 1)
    /\ sortKind = "stable"
    /\ config = create_default_config
    /\ host = DefaultHost
    /\ InitEngine

NextTopics ==
    \/ Construct \/ GetTopicQuery \/ GetDocumentsForTopic \/ GetTopicsForDocument
    \/ Return

SpecTopics == InitTopics /\ [][NextTopics]_vars

----------------------------------------------------------------------------
(* Making a configuration: SearchConfig(...) with the coefficients given  *)

(* coefficients in tenths, from below 0 to above 1.0 *)
Weights == (0 - 1)..(One + 1)

NewConfig ==
    \E data_path_exists \in BOOLEAN, c1 \in Weights, c2 \in Weights, c3 \in Weights :
        /\ phase = "new"
        /\ call = NoCall
        /\ call' = [op |-> "SearchConfig", data_path_exists |-> data_path_exists,
                    coeff1 |-> c1, coeff2 |-> c2, coeff3 |-> c3]
        /\ config' = SearchConfig(data_path_exists, c1, c2, c3)
        /\ UNCHANGED <<disk, sortKind, host, threads, phase, engine, result, trace, pin>>

(* the caller lets go of the object (or has handled the exception) *)
DropConfig ==
    /\ call.op = "SearchConfig"
    /\ call' = NoCall
    /\ config' = NoConfig
    /\ UNCHANGED <<disk, sortKind, host, threads, phase, engine, result, trace, pin>>

InitConfig ==
    /\ disk = EndToEndDisk
    /\ sortKind = "stable"
    /\ config = NoConfig
    /\ host = DefaultHost
    /\ InitEngine

NextConfig == NewConfig \/ DropConfig

SpecConfig == InitConfig /\ [][NextConfig]_vars

----------------------------------------------------------------------------
(* Properties of the clustering-mode search *)

SearchDone == call.op = "search"
SearchOk == SearchDone /\ result.status = "ok"
Scored == SearchDone /\ trace.error = "" /\ ~trace.empty

(* representative id = parent_id if present, else the post's own id *)
RepresentativeId(row) == IF row.ParentId = NaN THEN row.Id ELSE row.ParentId

IdsOf(rows) == [i \in DOMAIN rows |-> rows[i].Id]

(* the first n rows of a frame, all of them when it has fewer *)
FirstRows(rows, n) == SubSeq(rows, 1, Min(n, Len(rows)))

(* the candidate rows in fused-score rank order *)
RankedCandidates == Iloc(trace.relevant_posts, trace.ordre)

(* the rows of a ranked frame that are the first of their representative id *)
FirstOfEachThread(rows) ==
    SelectSeq([i \in DOMAIN rows |-> [row |-> rows[i], at |-> i]],
              LAMBDA x : \A j \in 1..(x.at - 1) :
                  RepresentativeId(rows[j]) # RepresentativeId(x.row))

(* the fused score the search computed for the post of a returned row *)
FusedScoreOf(row) ==
    trace.similarity_pond[CHOOSE i \in DOMAIN trace.relevant_posts :
                              trace.relevant_posts[i].Id = row.Id]

(* the posts a query is scored against: the members of its topic *)
CandidatesOf(query) ==
    PostsIsin(posts, get_documents_for_topic(get_topic_query(query)))

(* C1: the rows a clustering-mode search returns contain no two rows with *)
(* the same representative id.                                            *)
C1_NoTwoRowsShareRepresentative ==
    SearchOk =>
        \A i, j \in DOMAIN result.rows :
            i # j => RepresentativeId(result.rows[i]) # RepresentativeId(result.rows[j])

(* C2: the output is the subsequence of the ranked candidate list made of *)
(* the first row of each representative id, in rank order (cut to top_n); *)
(* on the end-to-end corpus, rank order [2,4,1,5,3], top_n = 5 gives      *)
(* [2, 4].                                                                *)
C2_OutputIsFirstRowOfEachThread ==
    /\ (Scored /\ (call.top_n = None \/ call.top_n[1] >= 0)) =>
          IdsOf(result.rows) =
              LET firsts == [i \in DOMAIN FirstOfEachThread(RankedCandidates) |->
                                FirstOfEachThread(RankedCandidates)[i].row.Id]
              IN  IF call.top_n = None THEN firsts
                  ELSE FirstRows(firsts, call.top_n[1])
    /\ (Scored /\ disk = EndToEndDisk /\ call.query = 3 /\ call.top_n = Some(5)) =>
          /\ IdsOf(RankedCandidates) = <<2, 4, 1, 5, 3>>
          /\ IdsOf(result.rows) = <<2, 4>>

(* C3: the title similarity of every candidate is the score of the title  *)
(* embedding of its representative id: an answer gets the score of its    *)
(* parent's title embedding, a root post the score of its own.            *)
C3_AnswersInheritParentTitleSimilarity ==
    Scored =>
        \A i \in DOMAIN trace.relevant_posts :
            trace.similarity_title[i] =
                cosine_similarity(
                    encode_query(call.query, QuestionQueryTable),
                    embeddings_titles[RepresentativeId(trace.relevant_posts[i])])

(* C4: when the topic inferred for the query has no member posts in the   *)
(* topic index, the search returns an empty result and raises nothing.    *)
C4_EmptyTopicReturnsEmpty ==
    (SearchDone /\ get_documents_for_topic(get_topic_query(call.query)) = <<>>) =>
        result = [status |-> "ok", rows |-> <<>>]

(* C5: in the returned rows the fused score is non-increasing from each   *)
(* row to the next.                                                       *)
C5_FusedScoresNonIncreasing ==
    SearchOk =>
        \A i \in 1..(Len(result.rows) - 1) :
            FusedScoreOf(result.rows[i]) >= FusedScoreOf(result.rows[i + 1])

C5_Witness ==
    /\ SearchOk
    /\ Len(result.rows) >= 3
    /\ FusedScoreOf(result.rows[1]) > FusedScoreOf(result.rows[Len(result.rows)])
    /\ \E i \in 1..(Len(trace.similarity_pond) - 1) :
           trace.similarity_pond[i] < trace.similarity_pond[i + 1]

(* C6: after any sequence of search, get_post_by_id and get_stats calls,  *)
(* the corpus, both embedding maps and the topic index are what           *)
(* initialization loaded.                                                 *)
C6_ReferenceDataUnchanged ==
    phase = "ready" =>
        /\ posts = disk.posts
        /\ embeddings_titles = disk.titles
        /\ embeddings_answer = disk.answers
        /\ topic_documents = get_document_topics(disk.posts)

C6_Witness ==
    /\ SearchOk
    /\ \E i \in DOMAIN result.rows :
           /\ result.rows[i].ParentId = result.rows[i].Id
           /\ \E k \in DOMAIN posts :
                  posts[k].Id = result.rows[i].Id /\ posts[k].ParentId = NaN

(* C7: a search made again with the same query and top_n, whatever other  *)
(* searches ran in between, returns the rows (or raises the error) of the *)
(* first time.                                                            *)
C7_SameQuerySameRows ==
    (SearchDone /\ pin # NoPin /\ call.query = pin.query /\ call.top_n = pin.top_n) =>
        result = pin.result

C7_Witness ==
    /\ SearchOk
    /\ pin # NoPin
    /\ pin.stage = "again"
    /\ call.query = pin.query
    /\ call.top_n = pin.top_n
    /\ Len(result.rows) >= 2

(* C8: with top_n = n >= 0 the result is the first n rows of the result   *)
(* with top_n absent (all of them when there are fewer), and with top_n   *)
(* absent every row of the de-duplication step is returned.               *)
C8_TruncationAfterDedup ==
    SearchOk =>
        /\ call.top_n = None => result.rows = trace.top_posts
        /\ (call.top_n # None /\ call.top_n[1] >= 0) =>
               result.rows = FirstRows(search(call.query, None).rows, call.top_n[1])

C8_Witness ==
    /\ SearchOk
    /\ call.top_n # None
    /\ call.top_n[1] > 0
    /\ call.top_n[1] < Len(trace.top_posts)
    /\ Len(result.rows) = call.top_n[1]

(* C9: if a candidate post of the query has no entry in the answer or the *)
(* title embedding map, the search raises, returns no rows and fuses no   *)
(* scores.                                                                *)
C9_MissingEmbeddingFailsQuery ==
    (SearchDone /\ \E i \in DOMAIN CandidatesOf(call.query) :
                       \/ CandidatesOf(call.query)[i].Id \notin DOMAIN embeddings_answer
                       \/ CandidatesOf(call.query)[i].Id \notin DOMAIN embeddings_titles) =>
        /\ result.status = "KeyError"
        /\ result.rows = <<>>
        /\ trace.similarity_pond = <<>>

C9_Witness ==
    /\ SearchDone
    /\ result.status = "KeyError"
    /\ Len(CandidatesOf(call.query)) >= 2
    /\ \E i, j \in DOMAIN CandidatesOf(call.query) :
           /\ CandidatesOf(call.query)[i].Id \notin DOMAIN embeddings_titles
           /\ CandidatesOf(call.query)[j].Id \in DOMAIN embeddings_titles
    /\ disk.absent = {}

EmbeddingFiles == {"embeddings_titles_dict.pt", "embeddings_bodies_dict.pt"}

(* C10, as stated: the engine never accepts queries with part of its      *)
(* artifacts absent.                                                      *)
C10_NoPartialServing ==
    phase = "ready" => disk.absent = {}

(* C10, amended: initialization fails as a whole when the corpus, the     *)
(* topic model, its vectorizer or a query encoder is absent; an absent    *)
(* embedding file leaves that map empty, the engine accepts queries and   *)
(* health_check reports "degraded".                                       *)
C10_OnlyEmbeddingFilesMayBeAbsent ==
    /\ phase = "ready" => disk.absent \subseteq EmbeddingFiles
    /\ (phase # "new" /\ disk.absent \subseteq EmbeddingFiles) => phase = "ready"
    /\ phase = "failed" => engine = <<<<>>, EmptyDict, EmptyDict, EmptyDict>>
    /\ (phase = "ready" /\ "embeddings_titles_dict.pt" \in disk.absent) =>
           embeddings_titles = EmptyDict
    /\ (phase = "ready" /\ "embeddings_bodies_dict.pt" \in disk.absent) =>
           embeddings_answer = EmptyDict
    /\ (call.op = "health_check" /\ disk.absent # {}) => result.status = "degraded"

C10_Witness ==
    /\ phase = "ready"
    /\ disk.absent = {"embeddings_titles_dict.pt"}
    /\ Len(posts) > 0
    /\ call.op = "health_check"
    /\ result.status = "degraded"

----------------------------------------------------------------------------
(* Properties of the configuration *)

ConfigMade == call.op = "SearchConfig"
ConfigAccepted == ConfigMade /\ config.error = ""
InRange(c) == 0 <= c /\ c <= One

(* C11: a configuration whose three weights sum to 0 is refused with the  *)
(* validation error of the other checks (ValueError), and no              *)
(* configuration object is made.                                          *)
C11_ZeroSumIsValidationError ==
    (ConfigMade /\ call.data_path_exists
                /\ InRange(call.coeff1) /\ InRange(call.coeff2) /\ InRange(call.coeff3)
                /\ call.coeff1 + call.coeff2 + call.coeff3 = 0) =>
        config.error = "ValueError"

(* C12: for accepted weights the stored weights sum to 1 and each stored  *)
(* weight is its input divided by the sum of the three inputs.            *)
C12_WeightsNormalised ==
    ConfigAccepted =>
        LET total == call.coeff1 + call.coeff2 + call.coeff3
        IN  /\ FracEq(FracAdd(FracAdd(config.coeff1, config.coeff2), config.coeff3),
                      Tenths(One))
            /\ FracEq(config.coeff1, <<call.coeff1, total>>)
            /\ FracEq(config.coeff2, <<call.coeff2, total>>)
            /\ FracEq(config.coeff3, <<call.coeff3, total>>)

C12_Witness ==
    /\ ConfigAccepted
    /\ call.coeff1 = 4 /\ call.coeff2 = 2 /\ call.coeff3 = 6
    /\ FracEq(config.coeff1, <<1, 3>>)
    /\ FracEq(config.coeff2, <<1, 6>>)
    /\ FracEq(config.coeff3, <<1, 2>>)

(* C13: with the default configuration the reserved weight w2 is 0, the   *)
(* two applied weights sum to 1, and the fused score of every candidate   *)
(* is w1 * sim_answer + w3 * sim_title.                                   *)
C13_DefaultAppliedWeightsSumToOne ==
    Scored =>
        /\ config.coeff2[1] = 0
        /\ FracEq(FracAdd(config.coeff1, config.coeff3), Tenths(One))
        /\ \A i \in DOMAIN trace.similarity_pond :
               FracEq(Tenths(trace.similarity_pond[i]),
                      FracAdd(<<config.coeff1[1] * trace.similarity_answer[i],
                                config.coeff1[2]>>,
                              <<config.coeff3[1] * trace.similarity_title[i],
                                config.coeff3[2]>>))

----------------------------------------------------------------------------
(* Properties of the alternate modes and of the API layer *)

(* C14: a semantic-mode or vector-mode request on an initialized engine   *)
(* succeeds and returns top_n rows of the whole corpus (all of them when  *)
(* the corpus is smaller), one row per post.                              *)
C14_AlternateModesSucceed ==
    /\ (call.op = "api.search" /\ call.search_type \in {"semantic", "vector"}) =>
           /\ result.success
           /\ Len(result.results) = Min(TopNOrDefault(call.top_n), Len(posts))
           /\ \A i, j \in DOMAIN result.results :
                  i # j => result.results[i].id # result.results[j].id
    /\ call.op = "engine.mode" =>
           /\ result.status = "ok"
           /\ Len(result.rows) = Min(call.top_n[1], Len(posts))

PostsWithId(post_id) == SelectSeq(posts, LAMBDA p : p.Id = post_id)

(* C15: looking up an id that is not in the corpus returns None from      *)
(* get_post_by_id and success = False with a not-found message from the   *)
(* API, and raises nothing; looking up an id that is in the corpus        *)
(* returns the row with that id.                                          *)
C15_LookupReportsNotFound ==
    /\ call.op = "get_post_by_id" =>
           IF PostsWithId(call.post_id) = <<>>
           THEN result = [status |-> "None", rows |-> <<>>]
           ELSE /\ result.status = "ok"
                /\ Len(result.rows) = 1
                /\ result.rows[1].Id = call.post_id
                /\ result.rows[1] \in Range(posts)
    /\ call.op = "api.get_post" =>
           IF PostsWithId(call.post_id) = <<>>
           THEN /\ ~result.success
                /\ result.error = "not found"
           ELSE /\ result.success
                /\ result.post.id = call.post_id

C15_Witness ==
    /\ call.op = "api.get_post"
    /\ Len(posts) = MaxPosts
    /\ call.post_id = MaxPosts + 1
    /\ ~result.success
    /\ result.error = "not found"

(* C18: on a machine without a CUDA device every mode returns what it     *)
(* returns on a machine with one, and none fails for want of the device.  *)
C18_SameResultWithoutCuda ==
    /\ (call.op = "VectorSearch.search" /\ ~host.cuda) =>
           /\ result.status # "RuntimeError"
           /\ result = VectorSearch_search(call.query, call.top_n[1],
                                           [host EXCEPT !.cuda = TRUE])
    /\ (call.op = "api.search" /\ ~host.cuda /\ ~result.success) =>
           result.error # "RuntimeError"
    /\ (call.op = "engine.mode" /\ ~host.cuda) => result.status # "RuntimeError"

----------------------------------------------------------------------------
(* Properties of requests evaluated concurrently *)

(* the engine holds what initialization loaded *)
EngineAsLoaded ==
    /\ posts = disk.posts
    /\ embeddings_titles = LoadEmbeddings("embeddings_titles_dict.pt", disk.titles)
    /\ embeddings_answer = LoadEmbeddings("embeddings_bodies_dict.pt", disk.answers)
    /\ topic_documents = get_document_topics(disk.posts)

Done(t) == threads # NoThreads /\ threads[t].pc = "done"
Failed(t) == Done(t) /\ threads[t].raw.status # "ok"

(* what the request of thread t returns when it is the only one running   *)
(* on the engine as loaded                                                *)
AloneResponse(t) ==
    api_search(threads[t].query, threads[t].top_n, threads[t].search_type)

(* C16: under every interleaving of the stages of two requests, each      *)
(* request gets the response it gets when run alone, and no stage has     *)
(* changed the engine.                                                    *)
C16_ConcurrentEqualsAlone ==
    (threads # NoThreads /\ phase = "ready") =>
        /\ EngineAsLoaded
        /\ \A t \in Threads :
               Done(t) => threads[t].response = AloneResponse(t)

C16_Witness ==
    /\ \A t \in Threads :
           /\ Done(t)
           /\ threads[t].overlapped
           /\ threads[t].response.success
           /\ threads[t].search_type = "clustering"
    /\ threads[1].top_n # threads[2].top_n
    /\ Len(threads[1].response.results) >= 2
    /\ Len(threads[2].response.results) = 1

(* C17: a request that fails is answered with success = False and the     *)
(* error, the engine is left as loaded, and every other request, in       *)
(* flight at the time or made later, gets the response it gets alone.     *)
C17_FailureStaysWithItsCaller ==
    \A t \in Threads :
        Failed(t) =>
            /\ ~threads[t].response.success
            /\ threads[t].response.error = threads[t].raw.status
            /\ threads[t].response.error # ""
            /\ EngineAsLoaded
            /\ \A u \in Threads \ {t} :
                   Done(u) => threads[u].response = AloneResponse(u)

C17_Witness ==
    /\ Failed(1)
    /\ threads[1].response.error = "KeyError"
    /\ threads[1].overlapped
    /\ Done(2)
    /\ threads[2].overlapped
    /\ threads[2].response.success
    /\ Len(threads[2].response.results) >= 1

----------------------------------------------------------------------------
(* Properties of ordering and of batched scoring *)

(* C19: the order computed from the fused scores is a permutation of the  *)
(* candidate positions by descending score in which candidates of equal   *)
(* score keep their candidate order.                                      *)
C19_OrderIsStable ==
    Scored =>
        /\ Len(trace.ordre) = Len(trace.similarity_pond)
        /\ Range(trace.ordre) = DOMAIN trace.similarity_pond
        /\ \A i, j \in DOMAIN trace.ordre :
               i < j =>
                   \/ trace.similarity_pond[trace.ordre[i]]
                          > trace.similarity_pond[trace.ordre[j]]
                   \/ /\ trace.similarity_pond[trace.ordre[i]]
                          = trace.similarity_pond[trace.ordre[j]]
                      /\ trace.ordre[i] < trace.ordre[j]

(* C20: for a fixed query and candidate list each scoring method returns  *)
(* the same array, in the same order, for every batch size >= 1: the      *)
(* array of batch size 1, one score per candidate.                        *)
C20_BatchSizeInvariant ==
    call.op = "score_batch" =>
        /\ result = score_batch(call.method, call.query,
                                FrameOf(call.scope, call.query), 1)
        /\ result.status = "ok" =>
               Len(result.rows) = Len(FrameOf(call.scope, call.query))

C20_Witness ==
    /\ call.op = "score_batch"
    /\ call.batch_size = 2
    /\ result.status = "ok"
    /\ Len(result.rows) = 5
    /\ \E i, j \in DOMAIN result.rows : result.rows[i] # result.rows[j]

----------------------------------------------------------------------------
(* Properties of score alignment *)

(* C21: for n candidates the answer-space and title-space score arrays    *)
(* have length n, element i of each is the similarity of the i-th         *)
(* candidate's own embedding, and the sort indices address the candidate  *)
(* rows the fused scores belong to.                                       *)
C21_ScoresAlignedWithCandidates ==
    Scored =>
        LET n == Len(trace.relevant_posts) IN
        /\ Len(trace.similarity_answer) = n
        /\ Len(trace.similarity_title) = n
        /\ Len(trace.similarity_pond) = n
        /\ \A i \in 1..n :
               /\ trace.similarity_answer[i] =
                      cosine_similarity(encode_query(call.query, AnswerQueryTable),
                                        embeddings_answer[trace.relevant_posts[i].Id])
               /\ trace.similarity_title[i] =
                      cosine_similarity(encode_query(call.query, QuestionQueryTable),
                                        embeddings_titles[trace.relevant_posts[i].Id])
               /\ trace.similarity_pond[i] =
                      coeff1 * trace.similarity_answer[i]
                          + coeff3 * trace.similarity_title[i]
        /\ Len(trace.top_posts) = n
        /\ \A k \in 1..n :
               trace.top_posts[k].Id = trace.relevant_posts[trace.ordre[k]].Id

C21_Witness ==
    /\ Scored
    /\ Len(trace.relevant_posts) >= 2
    /\ trace.similarity_answer[1] # trace.similarity_answer[2]
    /\ trace.similarity_title[1] # trace.similarity_title[2]
    /\ trace.ordre[1] # 1

----------------------------------------------------------------------------
(* Properties of the topic index *)

(* topic position u comes before position t in the ranking of a post:     *)
(* higher probability, or equal probability and lower topic id            *)
Beats(probs, u, t) == probs[u] > probs[t] \/ (probs[u] = probs[t] /\ u < t)

(* the 3 topic ids of highest probability, lower id first among equals *)
Top3(probs) ==
    {t - 1 : t \in {t \in DOMAIN probs :
                       Cardinality({u \in DOMAIN probs : Beats(probs, u, t)}) < 3}}

(* the ids of the posts of a frame that have topic among their 3, in      *)
(* frame order                                                            *)
MembersInPostOrder(ps, topic) ==
    IdsOf(SelectSeq(ps, LAMBDA p : topic \in Top3(LdaTransform(p.cleaned_body))))

Stored(topic) == IF topic \in DOMAIN topic_documents THEN topic_documents[topic] ELSE <<>>

TopicsListing(id) == {t \in DOMAIN topic_documents : id \in Range(topic_documents[t])}

RECURSIVE SumOfLengths(_, _)
SumOfLengths(td, keys) ==
    IF keys = {} THEN 0
    ELSE LET k == CHOOSE x \in keys : TRUE
         IN  Len(td[k]) + SumOfLengths(td, keys \ {k})

(* C22: the built index lists, under each topic, the ids of the posts     *)
(* that have it among their 3 most probable topics (the lower topic id    *)
(* winning among equal probabilities), in original post order.            *)
C22_IndexIsTop3InPostOrder ==
    phase = "ready" =>
        /\ DOMAIN topic_documents \subseteq TopicIds
        /\ \A topic \in TopicIds : Stored(topic) = MembersInPostOrder(posts, topic)

C22_Witness ==
    /\ phase = "ready"
    /\ Len(posts) >= 2
    /\ posts[1].cleaned_body = 1
    /\ posts[2].cleaned_body = 4
    /\ Stored(0) = <<1, 2>>
    /\ 2 \notin Range(Stored(3))

(* C23: get_topic_query returns a topic of maximal probability for the    *)
(* query, the lowest topic id among those of maximal probability.         *)
C23_TopicIsFirstArgmax ==
    call.op = "get_topic_query" =>
        LET probs == LdaTransform(call.query)
            t == result.rows[1] + 1
        IN  /\ t \in DOMAIN probs
            /\ \A u \in DOMAIN probs : probs[u] <= probs[t]
            /\ \A u \in DOMAIN probs : u < t => probs[u] < probs[t]

C23_Witness ==
    /\ call.op = "get_topic_query"
    /\ call.query = 4
    /\ result.rows = <<1>>
    /\ LdaTransform(4)[2] = LdaTransform(4)[3]

(* C24: get_documents_for_topic returns the stored members of a topic,    *)
(* and the empty list for a topic id the index does not hold, raising     *)
(* nothing and adding no entry to the index.                              *)
C24_UnknownTopicIsEmpty ==
    call.op = "get_documents_for_topic" =>
        LET built == get_document_topics(disk.posts)
        IN  /\ result.status = "ok"
            /\ result.rows = IF call.topic_id \in DOMAIN built
                             THEN built[call.topic_id] ELSE <<>>
            /\ topic_documents = built

C24_Witness ==
    /\ call.op = "get_documents_for_topic"
    /\ Len(posts) > 0
    /\ call.topic_id \in TopicIds
    /\ call.topic_id \notin DOMAIN topic_documents
    /\ result.rows = <<>>

(* C28: the index lists every post id under exactly 3 distinct topics, at *)
(* most once per topic; the list sizes sum to 3 * N; each list is in      *)
(* corpus order; no topic has an empty list.                              *)
C28_EveryPostUnderThreeTopics ==
    phase = "ready" =>
        /\ \A i \in DOMAIN posts : Cardinality(TopicsListing(posts[i].Id)) = 3
        /\ \A t \in DOMAIN topic_documents :
               /\ Len(topic_documents[t]) > 0
               /\ Cardinality(Range(topic_documents[t])) = Len(topic_documents[t])
               /\ Range(topic_documents[t]) \subseteq PostIds(posts)
               /\ \A a, b \in DOMAIN topic_documents[t] :
                      a < b =>
                          \E i, j \in DOMAIN posts :
                              /\ i < j
                              /\ posts[i].Id = topic_documents[t][a]
                              /\ posts[j].Id = topic_documents[t][b]
        /\ SumOfLengths(topic_documents, DOMAIN topic_documents) = 3 * Len(posts)

C28_Witness ==
    /\ phase = "ready"
    /\ Len(posts) = MaxPosts + 1
    /\ Cardinality(DOMAIN topic_documents) = Len(LdaTable[1])
    /\ \E t \in DOMAIN topic_documents : Len(topic_documents[t]) = Len(posts)

(* C29: for a post id of the corpus get_topics_for_document returns the 3 *)
(* topics whose index lists contain the id; for any other id it returns   *)
(* the empty list and raises nothing.                                     *)
C29_TopicsOfDocumentMatchIndex ==
    call.op = "get_topics_for_document" =>
        /\ result.status = "ok"
        /\ IF call.document_id \in PostIds(posts)
           THEN /\ Len(result.rows) = 3
                /\ Range(result.rows) = TopicsListing(call.document_id)
           ELSE result.rows = <<>>

C29_Witness ==
    /\ call.op = "get_topics_for_document"
    /\ Len(posts) >= 2
    /\ call.document_id = 2
    /\ posts[1].cleaned_body # posts[2].cleaned_body
    /\ Len(result.rows) = 3
    /\ Range(result.rows) # Range(get_topics_for_document(1).rows)

(* C25: every row a clustering search returns is a post of the corpus     *)
(* whose 3 most probable topics include the topic of the query; no row    *)
(* comes from outside the candidate list, and each candidate is scored    *)
(* and ranked once.                                                       *)
C25_ResultsComeFromTheQueryTopic ==
    /\ SearchOk =>
           \A k \in DOMAIN result.rows :
               /\ result.rows[k].Id \in PostIds(trace.relevant_posts)
               /\ \E i \in DOMAIN posts :
                      /\ posts[i].Id = result.rows[k].Id
                      /\ posts[i].cleaned_body = result.rows[k].cleaned_body
                      /\ get_topic_query(call.query)
                             \in Top3(LdaTransform(posts[i].cleaned_body))
    /\ Scored =>
           /\ Len(trace.similarity_answer) = Len(trace.relevant_posts)
           /\ Len(trace.similarity_title) = Len(trace.relevant_posts)
           /\ Len(trace.ordre) = Len(trace.relevant_posts)
           /\ Range(trace.ordre) = DOMAIN trace.relevant_posts

C25_Witness ==
    /\ SearchOk
    /\ Scored
    /\ Len(result.rows) >= 1
    /\ \E i \in DOMAIN posts :
           /\ get_topic_query(call.query) \notin Top3(LdaTransform(posts[i].cleaned_body))
           /\ posts[i].Id \notin PostIds(result.rows)

(* C26: every value SearchEngineAPI.search returns, on the success path   *)
(* and on the failure path, has all the fields SearchResponse requires.   *)
C26_ResponseHasRequiredFields ==
    call.op = "api.search" => SearchResponseRequired \subseteq DOMAIN result

(* C27: every row a clustering search returns through the API has a       *)
(* non-null parent_id, the representative id of the stored post: its own  *)
(* id for a root post; the stored rows keep the parent ids they were      *)
(* loaded with, null for a root.                                          *)
C27_RootReturnedWithOwnIdAsParent ==
    (call.op = "api.search" /\ call.search_type = "clustering" /\ result.success) =>
        /\ posts = disk.posts
        /\ \A k \in DOMAIN result.results :
               /\ result.results[k].parent_id # NaN
               /\ \E i \in DOMAIN posts :
                      /\ posts[i].Id = result.results[k].id
                      /\ result.results[k].parent_id = RepresentativeId(posts[i])

C27_Witness ==
    /\ call.op = "api.search"
    /\ call.search_type = "clustering"
    /\ result.success
    /\ \E k \in DOMAIN result.results, i \in DOMAIN posts :
           /\ posts[i].Id = result.results[k].id
           /\ posts[i].ParentId = NaN
           /\ result.results[k].parent_id = posts[i].Id

(* C30: SearchConfig raises ValueError and makes no object when the data  *)
(* path does not exist or one of the three coefficients is outside        *)
(* [0, 1]; a weight above 1 is rejected, not normalised.                  *)
C30_OutOfRangeIsRejected ==
    (/\ ConfigMade
     /\ \/ ~call.data_path_exists
        \/ ~InRange(call.coeff1) \/ ~InRange(call.coeff2) \/ ~InRange(call.coeff3)) =>
        config = [error |-> "ValueError"]

C30_Witness ==
    /\ ConfigMade
    /\ call.data_path_exists
    /\ call.coeff1 > One /\ call.coeff2 = 0 /\ call.coeff3 = 0
    /\ config = [error |-> "ValueError"]

====
